---- MODULE Spec2Model ----
(***************************************************************************)
(* A model of tcpman's SOCKS5 front end: the accept loop and shutdown      *)
(* coordination of main.rs, the per-connection handler                     *)
(* handle_socks5_client, and the handshake / reply / address codec of      *)
(* socks5.rs.                                                              *)
(*                                                                         *)
(* Granularity: one action is one poll of a task up to its next            *)
(* suspension point.  Every task future is wrapped in                      *)
(* Shutdown::wrap_cancel, whose poll looks at the shutdown signal before   *)
(* it polls the wrapped future, so a poll that starts after the signal     *)
(* makes no progress in the wrapped future.                                *)
(***************************************************************************)
EXTENDS Integers, Sequences, FiniteSets, TLC

\* Number of client connections that reach the listener.
MaxConns == 2

Conns == 1..MaxConns

VARIABLES
    shutdown,   \* the Shutdown signal has been raised (shutdown.shutdown())
    mainPc,     \* position of main
    servePc,    \* position of the serve_socks5 task
    conn,       \* per connection: the handler task and what was put on its sockets
    probe       \* address codec harness: an Address, its serialization, the parse of it

vars == <<shutdown, mainPc, servePc, conn, probe>>

-----------------------------------------------------------------------------
(* Bytes and integers on the wire *)

Zeros(n) == [i \in 1..n |-> 0]

\* AsyncWriteExt::write_u16: big-endian
U16BE(p) == <<(p \div 256) % 256, p % 256>>

\* AsyncReadExt::read_u16: big-endian
U16FromBE(hi, lo) == hi * 256 + lo

Contains(s, b) == \E i \in 1..Len(s) : s[i] = b

-----------------------------------------------------------------------------
(* socks5.rs: Address *)

IPv4(o) == [kind |-> "V4", bytes |-> o]
IPv6(o) == [kind |-> "V6", bytes |-> o]
Domain(b) == [kind |-> "Domain", bytes |-> b]

\* Address::default
AddressDefault(v6) == IF v6 THEN IPv6(Zeros(16)) ELSE IPv4(Zeros(4))

AddressWriteCharLen(a) ==
    CASE a.kind = "V4" -> <<1>> \o a.bytes
      [] a.kind = "V6" -> <<4>> \o a.bytes
      [] a.kind = "Domain" ->
            <<3, Cardinality({i \in 1..Len(a.bytes) : a.bytes[i] \notin 128..191})>>
            \o a.bytes

\* Address::write
AddressWrite(a) ==
    CASE a.kind = "V4" -> <<1>> \o a.bytes
      [] a.kind = "V6" -> <<4>> \o a.bytes
      [] a.kind = "Domain" -> <<3, Len(a.bytes)>> \o a.bytes

\* String::from_utf8 on the domain bytes: well-formed UTF-8 only
IsCont(b) == b \in 128..191

RECURSIVE IsUtf8From(_, _)
IsUtf8From(b, i) ==
    IF i > Len(b) THEN TRUE
    ELSE LET b0 == b[i]
             n  == Len(b)
         IN  IF b0 < 128
             THEN \* a run of ASCII bytes is passed over in one go
                  LET rest == {j \in (i + 1)..n : b[j] >= 128}
                  IN  IsUtf8From(b, IF rest = {} THEN n + 1
                                    ELSE CHOOSE j \in rest : \A k \in rest : j <= k)
             ELSE IF b0 \in 194..223
                  THEN i + 1 <= n /\ IsCont(b[i + 1]) /\ IsUtf8From(b, i + 2)
             ELSE IF b0 \in 224..239
                  THEN /\ i + 2 <= n
                       /\ b[i + 1] \in (IF b0 = 224 THEN 160..191
                                        ELSE IF b0 = 237 THEN 128..159
                                        ELSE 128..191)
                       /\ IsCont(b[i + 2])
                       /\ IsUtf8From(b, i + 3)
             ELSE IF b0 \in 240..244
                  THEN /\ i + 3 <= n
                       /\ b[i + 1] \in (IF b0 = 240 THEN 144..191
                                        ELSE IF b0 = 244 THEN 128..143
                                        ELSE 128..191)
                       /\ IsCont(b[i + 2])
                       /\ IsCont(b[i + 3])
                       /\ IsUtf8From(b, i + 4)
             ELSE FALSE

IsUtf8(b) == IsUtf8From(b, 1)

NoAddress == [kind |-> "None", bytes |-> <<>>]

ParseErr(msg, p) == [ok |-> FALSE, err |-> msg, addr |-> NoAddress, next |-> p]
ParseOk(a, p) == [ok |-> TRUE, err |-> "", addr |-> a, next |-> p]

\* Address::parse on the bytes s, the next unread byte being s[p].  The
\* stream ends after Len(s): a read past it fails with the read's context.
AddressParse(s, p) ==
    IF p > Len(s) THEN ParseErr("Reading address type", p)
    ELSE LET t == s[p] IN
         CASE t = 1 ->
                 IF p + 4 > Len(s) THEN ParseErr("Reading IPv4 address", p + 1)
                 ELSE ParseOk(IPv4(SubSeq(s, p + 1, p + 4)), p + 5)
           [] t = 3 ->
                 IF p + 1 > Len(s) THEN ParseErr("Reading domain length", p + 1)
                 ELSE LET len == s[p + 1] IN
                      IF p + 1 + len > Len(s) THEN ParseErr("Reading domain", p + 2)
                      ELSE LET buf == SubSeq(s, p + 2, p + 1 + len) IN
                           IF IsUtf8(buf) THEN ParseOk(Domain(buf), p + 2 + len)
                           ELSE ParseErr("invalid utf-8", p + 2 + len)
           [] t = 4 ->
                 IF p + 16 > Len(s) THEN ParseErr("Reading IPv6 address", p + 1)
                 ELSE ParseOk(IPv6(SubSeq(s, p + 1, p + 16)), p + 17)
           [] OTHER -> ParseErr("invalid address type", p + 1)

-----------------------------------------------------------------------------
(* socks5.rs: FailStatus *)

GeneralFailure == 1
NotAllowed == 2
NetworkUnreachable == 3
HostUnreachable == 4
ConnectionRefused == 5
TtlExpired == 6
CommandNotSupported == 7
AddressTypeNotSupported == 8

FailStatus == GeneralFailure..AddressTypeNotSupported

\* From<&io::Error> for FailStatus, used at main.rs:70 as (&e).into()
FailStatusOf(e) ==
    CASE e = "ConnectionRefused" -> ConnectionRefused
      [] e = "HostUnreachable" -> HostUnreachable
      [] e = "NetworkUnreachable" -> NetworkUnreachable
      [] OTHER -> GeneralFailure

-----------------------------------------------------------------------------
(* socks5.rs: Acceptor *)

None == <<>>
Some(x) == <<x>>

NoRequest == [cmd |-> "None", addr |-> NoAddress, port |-> 0]

AcceptErr(msg, p) ==
    [ok |-> FALSE, err |-> msg, req |-> NoRequest, is_v6 |-> FALSE, next |-> p]

AcceptGreetingFirstMethod(s) ==
    IF Len(s) < 1 THEN AcceptErr("Reading SOCKS version", 1)
    ELSE IF s[1] # 5 THEN AcceptErr("invalid socks version", 2)
    ELSE IF Len(s) < 2 THEN AcceptErr("Reading auth len", 2)
    ELSE IF Len(s) < 2 + s[2] THEN AcceptErr("Reading auth methods", 3)
    ELSE IF s[2] = 0 \/ s[3] # 0 THEN AcceptErr("only no auth is supported", 3 + s[2])
    ELSE [ok |-> TRUE, err |-> "", req |-> NoRequest, is_v6 |-> FALSE, next |-> 3 + s[2]]

AcceptGreetingAnyVersion(s) ==
    IF Len(s) < 1 THEN AcceptErr("Reading SOCKS version", 1)
    ELSE IF Len(s) < 2 THEN AcceptErr("Reading auth len", 2)
    ELSE IF Len(s) < 2 + s[2] THEN AcceptErr("Reading auth methods", 3)
    ELSE IF ~Contains(SubSeq(s, 3, 2 + s[2]), 0)
         THEN AcceptErr("only no auth is supported", 3 + s[2])
    ELSE [ok |-> TRUE, err |-> "", req |-> NoRequest, is_v6 |-> FALSE, next |-> 3 + s[2]]

\* Acceptor::accept up to the write of the method selection (socks5.rs:19-31):
\* what the reads and checks make of the client bytes s.
AcceptGreeting(s) ==
    IF Len(s) < 1 THEN AcceptErr("Reading SOCKS version", 1)
    ELSE IF s[1] # 5 THEN AcceptErr("invalid socks version", 2)
    ELSE IF Len(s) < 2 THEN AcceptErr("Reading auth len", 2)
    ELSE LET n_auth == s[2] IN
         IF Len(s) < 2 + n_auth THEN AcceptErr("Reading auth methods", 3)
         ELSE LET auth_methods == SubSeq(s, 3, 2 + n_auth) IN
              IF ~Contains(auth_methods, 0)
              THEN AcceptErr("only no auth is supported", 3 + n_auth)
              ELSE [ok |-> TRUE, err |-> "", req |-> NoRequest, is_v6 |-> FALSE,
                    next |-> 3 + n_auth]

\* The method selection Acceptor::accept writes (socks5.rs:34)
AuthResponse == <<5, 0>>

\* Acceptor::accept after the method selection (socks5.rs:37-58), the next
\* unread client byte being s[p].
AcceptRequest(s, p) ==
    IF p > Len(s) THEN AcceptErr("Reading request SOCKS version", p)
    ELSE IF s[p] # 5 THEN AcceptErr("invalid socks version", p + 1)
    ELSE IF p + 1 > Len(s) THEN AcceptErr("Reading command", p + 1)
    ELSE IF p + 2 > Len(s) THEN AcceptErr("Reading reserved", p + 2)
    ELSE LET cmd == s[p + 1]
             a   == AddressParse(s, p + 3)
         IN  IF ~a.ok THEN AcceptErr(a.err, a.next)
             ELSE IF a.next + 1 > Len(s) THEN AcceptErr("Reading port", a.next)
             ELSE LET port  == U16FromBE(s[a.next], s[a.next + 1])
                      is_v6 == a.addr.kind = "V6"
                      name  == CASE cmd = 1 -> "Connect"
                                 [] cmd = 2 -> "Bind"
                                 [] cmd = 3 -> "UdpAssociate"
                                 [] OTHER -> "None"
                  IN  IF name = "None" THEN AcceptErr("invalid command", a.next + 2)
                      ELSE [ok |-> TRUE, err |-> "",
                            req |-> [cmd |-> name, addr |-> a.addr, port |-> port],
                            is_v6 |-> is_v6, next |-> a.next + 2]

\* Acceptor::reply (socks5.rs:70-83).  buf is the local Vec the header and the
\* address are put in; wire is what the function writes to self.stream, which
\* is the port alone: buf is never written to the stream.
Reply(is_v6, status, bound, port) ==
    [buf  |-> <<5, IF status = None THEN 0 ELSE status[1], 0>>
              \o AddressWrite(IF bound = None THEN AddressDefault(is_v6) ELSE bound[1]),
     wire |-> U16BE(IF port = None THEN 0 ELSE port[1])]

\* Acceptor::reply_success: reply(None, Some(bound), Some(port))
ReplySuccess(is_v6, bound, port) == Reply(is_v6, None, Some(bound), Some(port))

\* Acceptor::reply_failure: reply(Some(status), None, None)
ReplyFailure(is_v6, status) == Reply(is_v6, Some(status), None, None)

-----------------------------------------------------------------------------
(* The environment: what clients send and what upstream connects do *)

Loopback6 == Zeros(15) \o <<1>>

\* What a client sends first, before it has seen the method selection
ClientGreetings ==
    { <<5, 1, 0>>,          \* SOCKS5, no-auth offered
      <<4, 1, 0>>,          \* SOCKS4
      <<5, 2, 1, 2>> }      \* SOCKS5, no-auth not offered

\* What a client sends next; it shuts its sending side down after it.
ClientRequests ==
    { <<5, 1, 0, 1, 127, 0, 0, 1, 0, 80>>,              \* Connect 127.0.0.1:80
      <<5, 1, 0, 4>> \o Loopback6 \o <<1, 187>>,        \* Connect [::1]:443
      <<5, 1, 0, 3, 1, 97, 0, 80>>,                     \* Connect "a":80
      <<5, 2, 0, 1, 10, 0, 0, 1, 0, 80>>,               \* Bind 10.0.0.1:80
      <<5, 3, 0, 4>> \o Zeros(16) \o <<0, 53>>,         \* UdpAssociate [::]:53
      <<5, 9, 0, 1, 10, 0, 0, 1, 0, 80>>,               \* unknown command
      <<5, 1, 0>> }                                     \* ends inside the request

\* Number of bytes a client sends after its request
MaxPayload == 2

\* io::ErrorKind of a failed TcpStream::connect
ConnectErrors == {"ConnectionRefused", "TimedOut"}

\* The local address upstream.local_addr() reports for a connection to addr
LocalPort == 49153

LocalAddrs(addr) ==
    IF addr.kind = "V6" THEN {IPv6(Loopback6)} ELSE {IPv4(<<127, 0, 0, 1>>)}

-----------------------------------------------------------------------------
(* State *)

\* A connection before it has reached the listener.
NewConn ==
    [pc |-> "unborn",        \* where its handler task is
     late |-> FALSE,         \* it reached the listener after the shutdown signal
     client |-> "none",      \* the accepted client socket: none / open / closed
     upstream |-> "none",    \* the upstream socket: none / open / closed
     inp |-> <<>>,           \* the bytes the client sends
     pos |-> 1,              \* index in inp of the next byte the handshake reads
     out |-> <<>>,           \* the bytes written to the client socket
     up |-> <<>>,            \* the bytes written to the upstream socket
     upBuf |-> <<>>,         \* copy buffer, client to upstream: read, not yet written
     dn |-> <<>>,            \* the bytes the upstream has sent that are not read yet
     downBuf |-> <<>>,       \* copy buffer, upstream to client: read, not yet written
     req |-> NoRequest,      \* the Request Acceptor::accept returned
     is_v6 |-> FALSE,        \* Acceptor.is_v6
     bound |-> NoAddress,    \* upstream.local_addr().ip()
     connErr |-> "",         \* the error of TcpStream::connect
     status |-> 0,           \* the FailStatus handed to reply_failure
     successReplies |-> 0,   \* calls of reply_success
     failureReplies |-> 0,   \* calls of reply_failure
     replyWritten |-> FALSE, \* the write of Acceptor::reply succeeded
     relay |-> "none",       \* copy_bidirectional: none / both / up_done / down_done /
                             \* finished / aborted
     outcome |-> "",         \* how the task ended
     err |-> "",             \* the error it ended with
     at |-> ""]              \* the suspension point it was cancelled or dropped at

\* The codec harness before it has run
NoProbe == [addr |-> NoAddress, bytes |-> <<>>, tail |-> <<>>,
            parsed |-> ParseErr("", 1)]

LivePcs == {"greeting", "request", "connecting", "reply_success", "reply_failure", "relaying"}

Live(c) == conn[c].pc \in LivePcs

Init ==
    /\ shutdown = FALSE
    /\ mainPc = "ctrl_c"
    /\ servePc = "accepting"
    /\ conn = [c \in Conns |-> NewConn]
    /\ probe = NoProbe

-----------------------------------------------------------------------------
(* main.rs: task endings *)

CloseClientOnly(r) == [r EXCEPT !.client = "closed"]

\* Dropping the handler future drops the BufReader<TcpStream> (or the Acceptor
\* that owns it) and the upstream TcpStream, which closes them.  The copy
\* buffers of copy_bidirectional go with the future, and so do the bytes they
\* hold; what the upstream had sent and nobody read goes with its socket.
CloseSockets(r) ==
    [r EXCEPT !.client = "closed",
              !.upstream = IF @ = "open" THEN "closed" ELSE @,
              !.upBuf = <<>>, !.dn = <<>>, !.downBuf = <<>>]

TaskReturnsPropagating(c, r) ==
    /\ conn' = [conn EXCEPT ![c] = [r EXCEPT !.client = "closed",
                                             !.upstream = IF @ = "open" THEN "closed" ELSE @]]
    /\ servePc' = IF r.outcome \in {"cancelled", "ok"} THEN servePc ELSE "error"
    /\ UNCHANGED <<shutdown, mainPc, probe>>

\* The task spawned at main.rs:39-44 ends: its sockets are dropped, an error is
\* logged and goes nowhere else.
TaskReturns(c, r) ==
    /\ conn' = [conn EXCEPT ![c] = CloseSockets(r)]
    /\ UNCHANGED <<shutdown, mainPc, servePc, probe>>

\* handle_socks5_client returns Err(err) with the anyhow context ctx
Failed(r, ctx, err) ==
    [r EXCEPT !.pc = "done", !.outcome = ctx, !.err = err,
              !.relay = IF @ = "none" THEN @ ELSE "aborted"]

FailureOutcomes ==
    {"Accepting socks5 connection", "Invalid request", "Connecting",
     "Replying to socks5 conn", "Copying data"}

-----------------------------------------------------------------------------
(* main.rs: main *)

\* Tasks that hold a delay token of the Shutdown (delay_shutdown_token,
\* wrap_wait): the source takes none, its tasks are wrapped by wrap_cancel only.
DelayTokens == {}

\* What becomes of a task when the runtime is dropped as main returns: a
\* task that has not finished is dropped where it is suspended.
Dropped(r) ==
    IF r.pc \in LivePcs
    THEN CloseSockets([r EXCEPT !.pc = "done", !.outcome = "dropped", !.at = r.pc,
                                !.relay = IF @ = "none" THEN @ ELSE "aborted"])
    ELSE r

\* main returns; the runtime built by #[tokio::main] is dropped with it, and
\* with the runtime every task that is still suspended.
RuntimeDropped ==
    /\ conn' = [c \in Conns |-> Dropped(conn[c])]
    /\ servePc' = IF servePc = "accepting" THEN "dropped" ELSE servePc

\* ctrl_c().await returns Ok; shutdown.shutdown()
CtrlC ==
    /\ mainPc = "ctrl_c"
    /\ shutdown' = TRUE
    /\ mainPc' = "wait_complete"
    /\ UNCHANGED <<servePc, conn, probe>>

\* ctrl_c().await returns Err: main returns it without raising the signal
CtrlCFails ==
    /\ mainPc = "ctrl_c"
    /\ mainPc' = "failed"
    /\ RuntimeDropped
    /\ UNCHANGED <<shutdown, probe>>

\* shutdown.wait_shutdown_complete().await returns: "Shutdown complete"
WaitShutdownComplete ==
    /\ mainPc = "wait_complete"
    /\ shutdown
    /\ DelayTokens = {}
    /\ mainPc' = "complete"
    /\ UNCHANGED <<shutdown, servePc, conn, probe>>

\* main returns Ok(())
MainReturns ==
    /\ mainPc = "complete"
    /\ mainPc' = "exited"
    /\ RuntimeDropped
    /\ UNCHANGED <<shutdown, probe>>

-----------------------------------------------------------------------------
(* main.rs: serve_socks5 *)

\* shutdown.wrap_cancel(listener.accept()) (inside the wrap_cancel of the
\* whole serve_socks5 future) can yield None once the signal is raised.  The
\* wrapper races the accept against the signal: a poll that finds the accept
\* ready (a connection in the backlog, or an error) may still return it after
\* the signal; a poll that finds it pending returns None.
AcceptCancelled == shutdown

\* A client connects to the listening socket and waits in its backlog.
Arrive(c) ==
    /\ servePc = "accepting"
    /\ conn[c].pc = "unborn"
    /\ \A d \in Conns : d < c => conn[d].pc # "unborn"
    /\ conn' = [conn EXCEPT ![c].pc = "backlog", ![c].late = shutdown]
    /\ UNCHANGED <<shutdown, mainPc, servePc, probe>>

\* listener.accept() returns a connection; its handler task is spawned
AcceptConn(c) ==
    /\ servePc = "accepting"
    /\ conn[c].pc = "backlog"
    /\ \A d \in Conns : d < c => conn[d].pc \notin {"unborn", "backlog"}
    /\ conn' = [conn EXCEPT ![c].pc = "greeting", ![c].client = "open"]
    /\ UNCHANGED <<shutdown, mainPc, servePc, probe>>

AcceptErrorFatal ==
    /\ servePc = "accepting"
    /\ servePc' = "error"
    /\ mainPc' = "failed"
    /\ conn' = [c \in Conns |-> Dropped(conn[c])]
    /\ UNCHANGED <<shutdown, probe>>

\* listener.accept() returns an error: serve_socks5 returns it
AcceptError ==
    /\ servePc = "accepting"
    /\ servePc' = "error"
    /\ UNCHANGED <<shutdown, mainPc, conn, probe>>

\* the accept is cancelled: the loop ends, serve_socks5 is over
ServeCancelled ==
    /\ servePc = "accepting"
    /\ AcceptCancelled
    /\ servePc' = "cancelled"
    /\ UNCHANGED <<shutdown, mainPc, conn, probe>>

-----------------------------------------------------------------------------
(* main.rs: handle_socks5_client, wrapped by shutdown.wrap_cancel *)

\* The handler of c is suspended at p and a poll of it gets to the handler.
\* The wrapper races the handler against the signal: after the signal a step
\* whose I/O is ready may still be taken, and a poll that finds the handler
\* pending cancels it (Cancel).
Polled(c, p) == conn[c].pc = p

CancelPointsHandshakeOnly == {"greeting", "request"}

\* Suspension points at which the wrapped handler is cancelled by the signal
CancelPoints == LivePcs

GreetingWithEagerWrite(c, S) ==
    /\ Polled(c, "greeting")
    /\ \E s \in S :
          LET g == AcceptGreeting(s)
              r == [conn[c] EXCEPT !.inp = s, !.pos = g.next,
                                   !.out = IF Len(s) >= 1 /\ s[1] = 5
                                           THEN @ \o AuthResponse ELSE @]
          IN  IF ~g.ok
              THEN TaskReturns(c, Failed(r, "Accepting socks5 connection", g.err))
              ELSE /\ conn' = [conn EXCEPT ![c] = [r EXCEPT !.pc = "request"]]
                   /\ UNCHANGED <<shutdown, mainPc, servePc, probe>>

\* Acceptor::accept, first half: greeting read and checked, method selection
\* written.  s: what the client has sent, one of S; wok: the write succeeds.
GreetingWith(c, S) ==
    /\ Polled(c, "greeting")
    /\ \E s \in S, wok \in BOOLEAN :
          LET g == AcceptGreeting(s)
              r == [conn[c] EXCEPT !.inp = s, !.pos = g.next]
          IN  IF ~g.ok
              THEN TaskReturns(c, Failed(r, "Accepting socks5 connection", g.err))
              ELSE IF ~wok
              THEN TaskReturns(c, Failed(r, "Accepting socks5 connection",
                                            "Writing auth response"))
              ELSE /\ conn' = [conn EXCEPT ![c] =
                                 [r EXCEPT !.pc = "request", !.out = @ \o AuthResponse]]
                   /\ UNCHANGED <<shutdown, mainPc, servePc, probe>>

GreetingStep(c) == GreetingWith(c, ClientGreetings)

ConnectsAnyRequest(req) == TRUE

\* The match on the request (main.rs:56-60): the arms that call
\* TcpStream::connect are the two Request::Connect arms.
ConnectsUpstream(req) == req.cmd = "Connect"

\* Acceptor::accept, second half, and the match on the request (main.rs:56-60).
\* s: what the client sends after the greeting, one of S.
RequestWith(c, S) ==
    /\ Polled(c, "request")
    /\ \E s \in S :
          LET inp == conn[c].inp \o s
              q   == AcceptRequest(inp, conn[c].pos)
              r   == [conn[c] EXCEPT !.inp = inp, !.pos = q.next, !.req = q.req,
                                     !.is_v6 = q.is_v6]
          IN  IF ~q.ok
              THEN TaskReturns(c, Failed(r, "Accepting socks5 connection", q.err))
              ELSE IF ~ConnectsUpstream(q.req)
              THEN TaskReturns(c, Failed(r, "Invalid request", "Invalid request"))
              ELSE /\ conn' = [conn EXCEPT ![c] = [r EXCEPT !.pc = "connecting"]]
                   /\ UNCHANGED <<shutdown, mainPc, servePc, probe>>

RequestStep(c) == RequestWith(c, ClientRequests)

\* TcpStream::connect completes (main.rs:57-58, 62-72)
ConnectStep(c) ==
    /\ Polled(c, "connecting")
    /\ \/ \E a \in LocalAddrs(conn[c].req.addr) :
             conn' = [conn EXCEPT ![c] =
                        [@ EXCEPT !.pc = "reply_success", !.upstream = "open",
                                  !.bound = a]]
       \/ \E e \in ConnectErrors :
             conn' = [conn EXCEPT ![c] =
                        [@ EXCEPT !.pc = "reply_failure", !.connErr = e,
                                  !.status = FailStatusOf(e)]]
    /\ UNCHANGED <<shutdown, mainPc, servePc, probe>>

AfterReplySuccessIgnoringError(r, wok) ==
    [r EXCEPT !.pc = "relaying", !.replyWritten = wok, !.relay = "both"]

\* What handle_socks5_client does with the result of reply_success
\* (main.rs:66, 75): `?` on an error, copy_bidirectional otherwise.
AfterReplySuccess(r, wok) ==
    IF wok THEN [r EXCEPT !.pc = "relaying", !.replyWritten = TRUE, !.relay = "both"]
    ELSE CloseSockets(Failed(r, "Replying to socks5 conn", "Writing port"))

\* acceptor.reply_success(&Address::IP(bound.ip()), bound.port()).await
ReplySuccessStep(c) ==
    /\ Polled(c, "reply_success")
    /\ \E wok \in BOOLEAN :
          LET rep == ReplySuccess(conn[c].is_v6, conn[c].bound, LocalPort)
              r   == [conn[c] EXCEPT !.successReplies = @ + 1,
                                     !.out = IF wok THEN @ \o rep.wire ELSE @]
          IN  conn' = [conn EXCEPT ![c] = AfterReplySuccess(r, wok)]
    /\ UNCHANGED <<shutdown, mainPc, servePc, probe>>

ReplyFailureStepPropagating(c) ==
    /\ Polled(c, "reply_failure")
    /\ \E wok \in BOOLEAN :
          LET rep == ReplyFailure(conn[c].is_v6, conn[c].status)
              r   == [conn[c] EXCEPT !.failureReplies = @ + 1, !.replyWritten = wok,
                                     !.out = IF wok THEN @ \o rep.wire ELSE @]
          IN  IF wok THEN TaskReturns(c, Failed(r, "Connecting", conn[c].connErr))
              ELSE TaskReturns(c, Failed(r, "Replying to socks5 conn", "Writing port"))

\* acceptor.reply_failure((&e).into()).await; return Err(e) (main.rs:69-72).
\* The result of the write is dropped by reply_failure.
ReplyFailureStep(c) ==
    /\ Polled(c, "reply_failure")
    /\ \E wok \in BOOLEAN :
          LET rep == ReplyFailure(conn[c].is_v6, conn[c].status)
              r   == [conn[c] EXCEPT !.failureReplies = @ + 1,
                                     !.out = IF wok THEN @ \o rep.wire ELSE @]
          IN  TaskReturns(c, Failed([r EXCEPT !.replyWritten = wok], "Connecting",
                                    conn[c].connErr))

\* The client bytes the handshake has not consumed: what is left in the
\* BufReader's buffer and what has reached the socket since.
Unread(r) == SubSeq(r.inp, r.pos, Len(r.inp))

\* The client sends more bytes while the relay runs.
ClientSends(c, bytes) ==
    /\ conn[c].pc = "relaying"
    /\ conn[c].relay \in {"both", "down_done"}
    /\ Len(conn[c].up) + Len(conn[c].upBuf) + Len(Unread(conn[c])) + Len(bytes)
          <= MaxPayload
    /\ conn' = [conn EXCEPT ![c].inp = @ \o bytes]
    /\ UNCHANGED <<shutdown, mainPc, servePc, probe>>

\* Number of bytes of conn[c].out the relay has written: what follows the
\* method selection and the reply
Downloaded(r) == Len(r.out) - Len(AuthResponse) - Len(U16BE(LocalPort))

\* The upstream sends bytes while the relay runs.
UpstreamSends(c, bytes) ==
    /\ conn[c].pc = "relaying"
    /\ conn[c].relay \in {"both", "up_done"}
    /\ Downloaded(conn[c]) + Len(conn[c].downBuf) + Len(conn[c].dn) + Len(bytes)
          <= MaxPayload
    /\ conn' = [conn EXCEPT ![c].dn = @ \o bytes]
    /\ UNCHANGED <<shutdown, mainPc, servePc, probe>>

RelayReadUpFromSocket(c) ==
    /\ Polled(c, "relaying")
    /\ conn[c].relay \in {"both", "down_done"}
    /\ Unread(conn[c]) # <<>>
    /\ \E k \in 1..Len(Unread(conn[c])) :
          conn' = [conn EXCEPT ![c].pos = @ + k]
    /\ UNCHANGED <<shutdown, mainPc, servePc, probe>>

\* copy_bidirectional (main.rs:75), client to upstream, the read: some of the
\* unread client bytes are read from the BufReader<TcpStream> reply_success
\* returned (its buffer first, then the socket) into the copy buffer.
RelayReadUp(c) ==
    /\ Polled(c, "relaying")
    /\ conn[c].relay \in {"both", "down_done"}
    /\ Unread(conn[c]) # <<>>
    /\ \E k \in 1..Len(Unread(conn[c])) :
          conn' = [conn EXCEPT ![c].upBuf = @ \o SubSeq(Unread(conn[c]), 1, k),
                                ![c].pos = @ + k]
    /\ UNCHANGED <<shutdown, mainPc, servePc, probe>>

\* copy_bidirectional, client to upstream, the write: the upstream socket
\* takes some of the bytes of the copy buffer.  While a write is Pending the
\* handler is suspended with the bytes in the buffer; a write that fails is
\* RelayError.
RelayWriteUp(c) ==
    /\ Polled(c, "relaying")
    /\ conn[c].upBuf # <<>>
    /\ \E k \in 1..Len(conn[c].upBuf) :
          conn' = [conn EXCEPT ![c].up = @ \o SubSeq(conn[c].upBuf, 1, k),
                                ![c].upBuf = SubSeq(@, k + 1, Len(@))]
    /\ UNCHANGED <<shutdown, mainPc, servePc, probe>>

\* copy_bidirectional, upstream to client, the read into the copy buffer
RelayReadDown(c) ==
    /\ Polled(c, "relaying")
    /\ conn[c].relay \in {"both", "up_done"}
    /\ conn[c].dn # <<>>
    /\ \E k \in 1..Len(conn[c].dn) :
          conn' = [conn EXCEPT ![c].downBuf = @ \o SubSeq(conn[c].dn, 1, k),
                                ![c].dn = SubSeq(@, k + 1, Len(@))]
    /\ UNCHANGED <<shutdown, mainPc, servePc, probe>>

\* copy_bidirectional, upstream to client, the write to the client socket
RelayWriteDown(c) ==
    /\ Polled(c, "relaying")
    /\ conn[c].downBuf # <<>>
    /\ \E k \in 1..Len(conn[c].downBuf) :
          conn' = [conn EXCEPT ![c].out = @ \o SubSeq(conn[c].downBuf, 1, k),
                                ![c].downBuf = SubSeq(@, k + 1, Len(@))]
    /\ UNCHANGED <<shutdown, mainPc, servePc, probe>>

\* A direction of the relay can end: its source is at end-of-stream, all it
\* sent has been read, and the copy buffer has been written out.
Drained(r, dir) ==
    IF dir = "up" THEN Unread(r) = <<>> /\ r.upBuf = <<>>
    ELSE r.dn = <<>> /\ r.downBuf = <<>>

\* copy_bidirectional (main.rs:75): one direction reaches end-of-stream, after
\* all its source sent has been read and written.  The call returns once both
\* directions have.
RelayEof(c, dir) ==
    /\ Polled(c, "relaying")
    /\ Drained(conn[c], dir)
    /\ LET r == conn[c] IN
       \/ /\ r.relay = "both"
          /\ conn' = [conn EXCEPT ![c].relay = IF dir = "up" THEN "up_done" ELSE "down_done"]
          /\ UNCHANGED <<shutdown, mainPc, servePc, probe>>
       \/ /\ r.relay = (IF dir = "up" THEN "down_done" ELSE "up_done")
          /\ TaskReturns(c, [r EXCEPT !.pc = "done", !.outcome = "ok",
                                      !.relay = "finished"])

\* copy_bidirectional returns an I/O error of either leg
RelayError(c) ==
    /\ Polled(c, "relaying")
    /\ TaskReturns(c, Failed(conn[c], "Copying data", "io"))

\* wrap_cancel(handle_socks5_client(stream)) yields None: the handler future is
\* dropped where it was suspended.
Cancel(c) ==
    /\ shutdown
    /\ conn[c].pc \in CancelPoints
    /\ TaskReturns(c, [conn[c] EXCEPT !.pc = "done", !.outcome = "cancelled",
                                      !.at = conn[c].pc,
                                      !.relay = IF @ = "none" THEN @ ELSE "aborted"])

-----------------------------------------------------------------------------

Next ==
    \/ CtrlC
    \/ CtrlCFails
    \/ WaitShutdownComplete
    \/ MainReturns
    \/ AcceptError
    \/ ServeCancelled
    \/ \E c \in Conns :
          \/ Arrive(c)
          \/ AcceptConn(c)
          \/ GreetingStep(c)
          \/ RequestStep(c)
          \/ ConnectStep(c)
          \/ ReplySuccessStep(c)
          \/ ReplyFailureStep(c)
          \/ RelayEof(c, "up")
          \/ RelayEof(c, "down")
          \/ RelayError(c)
          \/ Cancel(c)

Spec == Init /\ [][Next]_vars

\* The scheduler polls a task that the shutdown signal has woken.
FairSpec == Spec /\ \A c \in Conns : WF_vars(Cancel(c))

-----------------------------------------------------------------------------
(* One connection, byte by byte: the handshake of a single client over a    *)
(* wider choice of client bytes.  Client and upstream send no payload here, *)
(* so of the relay only its end is left.                                    *)

\* Number of authentication methods a greeting offers
MaxMethods == 3

\* 0x00 no authentication, 0x01 GSSAPI, 0x02 username/password
MethodIds == {0, 1, 2}

SeqsUpTo(S, n) == UNION {[1..k -> S] : k \in 0..n}

HsGreetings ==
    {<<5, Len(m)>> \o m : m \in SeqsUpTo(MethodIds, MaxMethods)}
    \cup { <<>>,            \* the client closes at once
           <<4, 1, 0>>,     \* SOCKS4
           <<5>>,           \* ends before the method count
           <<5, 2, 0>> }    \* ends inside the method list

\* Command bytes: Connect, Bind, UdpAssociate and one that is none of them
HsCommands == {1, 2, 3, 9}

\* ATYP and address of a well-formed request
HsAddrFields ==
    { <<1, 127, 0, 0, 1>>,          \* 127.0.0.1
      <<4>> \o Loopback6,           \* ::1
      <<3, 1, 97>>,                 \* "a"
      <<3, 2, 195, 169>>,           \* "e" with acute accent, two bytes
      <<3, 0>> }                    \* the empty domain

\* What follows the command byte in a request that does not parse
HsBrokenRests ==
    { <<>>,                             \* ends after the command
      <<0>>,                            \* ends after the reserved byte
      <<0, 5, 1, 2, 3, 4, 0, 80>>,      \* address type 5
      <<0, 3, 2, 195, 40, 0, 80>>,      \* domain that is not UTF-8
      <<0, 3>>,                         \* ends before the domain length
      <<0, 3, 5, 97>>,                  \* ends inside the domain
      <<0, 1, 127, 0>>,                 \* ends inside the IPv4 address
      <<0, 4, 0, 0>>,                   \* ends inside the IPv6 address
      <<0, 1, 127, 0, 0, 1, 0>> }       \* ends inside the port

HsRequests ==
    {<<5, cmd, 0>> \o a \o <<1, 187>> : cmd \in HsCommands, a \in HsAddrFields}
    \cup {<<5, cmd>> \o b : cmd \in HsCommands, b \in HsBrokenRests}
    \cup { <<>>,                                       \* the client closes
           <<5>>,                                      \* ends before the command
           <<4, 1, 0, 1, 127, 0, 0, 1, 0, 80>> }       \* request version 4

HsGreetingStep == GreetingWith(1, HsGreetings)

HsRequestStep == RequestWith(1, HsRequests)

HsNext ==
    \/ Arrive(1)
    \/ AcceptConn(1)
    \/ HsGreetingStep
    \/ HsRequestStep
    \/ ConnectStep(1)
    \/ ReplySuccessStep(1)
    \/ ReplyFailureStep(1)
    \/ RelayEof(1, "up")
    \/ RelayEof(1, "down")
    \/ RelayError(1)

HsSpec == Init /\ [][HsNext]_vars

-----------------------------------------------------------------------------
(* One connection whose client and upstream send payload: the relay byte by *)
(* byte, after a handshake that succeeds, and its cancellation.             *)

RelayGreetings == {<<5, 1, 0>>, <<5, 2, 1, 0>>}

\* What the client sends after its request
PayloadBytes == {170, 187}

\* What the upstream sends is one byte value: its order is not at stake
ReplyBytes == {204}

\* Connect and Bind requests, followed at once by none or some payload
RelayRequests ==
    {<<5, cmd, 0>> \o a \o <<1, 187>> \o e :
        cmd \in {1, 2}, a \in HsAddrFields, e \in SeqsUpTo(PayloadBytes, MaxPayload)}

RelayGreetingStep == GreetingWith(1, RelayGreetings)

RelayRequestStep == RequestWith(1, RelayRequests)

RelayClientSends == \E b \in PayloadBytes : ClientSends(1, <<b>>)

RelayUpstreamSends == \E b \in ReplyBytes : UpstreamSends(1, <<b>>)

RelayNext ==
    \/ Arrive(1)
    \/ AcceptConn(1)
    \/ RelayGreetingStep
    \/ RelayRequestStep
    \/ ConnectStep(1)
    \/ ReplySuccessStep(1)
    \/ ReplyFailureStep(1)
    \/ RelayClientSends
    \/ RelayUpstreamSends
    \/ RelayReadUp(1)
    \/ RelayWriteUp(1)
    \/ RelayReadDown(1)
    \/ RelayWriteDown(1)
    \/ RelayEof(1, "up")
    \/ RelayEof(1, "down")
    \/ RelayError(1)
    \/ CtrlC
    \/ Cancel(1)

RelaySpec == Init /\ [][RelayNext]_vars

-----------------------------------------------------------------------------
(* The address codec on its own: Address::write, then Address::parse *)

\* The longest domain Address::write serializes (its length is put in a u8)
MaxDomainLen == 255

\* Number of characters of the short domains tried
MaxDomainChars == 2

ProbeOctets == {0, 127, 255}

\* UTF-8 encodings of characters of one, two, three and four bytes
Utf8Chars == {<<97>>, <<195, 169>>, <<226, 130, 172>>, <<240, 159, 152, 128>>}

RECURSIVE Flatten(_)
Flatten(ss) == IF ss = <<>> THEN <<>> ELSE Head(ss) \o Flatten(Tail(ss))

ProbeAddresses ==
    {IPv4(o) : o \in [1..4 -> ProbeOctets]}
    \cup {IPv6(Zeros(16)), IPv6(Loopback6), IPv6([i \in 1..16 |-> 255]),
          IPv6([i \in 1..16 |-> 16 * i - 1])}
    \cup {Domain(Flatten(cs)) : cs \in SeqsUpTo(Utf8Chars, MaxDomainChars)}
    \cup {Domain([i \in 1..MaxDomainLen |-> 97]),
          Domain([i \in 1..(MaxDomainLen - 1) |-> 97]),
          Domain(<<195, 169>> \o [i \in 1..(MaxDomainLen - 2) |-> 46])}

\* Bytes that follow the address in the stream it is parsed from
ProbeTails == {<<>>, <<5>>, <<0, 80>>}

\* a is serialized into an empty buffer and parsed back from a stream that
\* holds the serialization followed by t.
RoundTrip ==
    /\ \E a \in ProbeAddresses, t \in ProbeTails :
          probe' = [addr |-> a, bytes |-> AddressWrite(a), tail |-> t,
                    parsed |-> AddressParse(AddressWrite(a) \o t, 1)]
    /\ UNCHANGED <<shutdown, mainPc, servePc, conn>>

CodecSpec == Init /\ [][RoundTrip]_vars

-----------------------------------------------------------------------------
(* Properties *)

Done(c) == conn[c].pc = "done"

\* The handler of c returned on its own (it was neither cancelled nor dropped)
Returned(c) == Done(c) /\ conn[c].outcome \notin {"cancelled", "dropped"}

\* reply_success has returned Ok for c
SuccessReplied(c) == conn[c].successReplies = 1 /\ conn[c].replyWritten

\* reply_failure has run for c and its write succeeded
FailureReplied(c) == conn[c].failureReplies = 1 /\ conn[c].replyWritten

\* C1: once reply_success has returned the stream, the client has been sent,
\* after the method selection, [0x05, 0x00, 0x00], the serialized bound
\* address and the big-endian bound port, in this order.
C1_SuccessReplyOnWire ==
    \A c \in Conns :
        SuccessReplied(c) =>
            conn[c].out = AuthResponse \o <<5, 0, 0>>
                          \o AddressWrite(conn[c].bound) \o U16BE(LocalPort)

\* C2: once reply_failure(status) has written, the client has been sent, after
\* the method selection, [0x05, status, 0x00], the unspecified address of the
\* session's family (0x04 + 16 zeros for IPv6, 0x01 + 4 zeros otherwise) and
\* the port 0x00 0x00.
C2_FailureReplyOnWire ==
    \A c \in Conns :
        FailureReplied(c) =>
            /\ conn[c].status \in FailStatus
            /\ conn[c].out = AuthResponse \o <<5, conn[c].status, 0>>
                             \o (IF conn[c].is_v6 THEN <<4>> \o Zeros(16)
                                 ELSE <<1>> \o Zeros(4))
                             \o <<0, 0>>

\* C3: a handler whose upstream connect failed has, when it ends, issued a
\* failure reply whose status is the one mapped from the connect error
\* (ConnectionRefused gives 0x05, an unclassified error 0x01), the reply
\* written to the client carries that status, and no relay was started.
C3_ConnectFailureReplied ==
    \A c \in Conns :
        (Returned(c) /\ conn[c].connErr # "") =>
            /\ conn[c].failureReplies = 1
            /\ conn[c].status = (IF conn[c].connErr = "ConnectionRefused" THEN 5 ELSE 1)
            /\ conn[c].relay = "none"
            /\ conn[c].replyWritten =>
                  /\ Len(conn[c].out) >= Len(AuthResponse) + 3
                  /\ SubSeq(conn[c].out, Len(AuthResponse) + 1, Len(AuthResponse) + 3)
                        = <<5, conn[c].status, 0>>

\* C4: a handler whose handshake yielded Bind or UdpAssociate has, when it
\* ends, issued a failure reply with status CommandNotSupported (0x07).
C4_UnsupportedCommandReplied ==
    \A c \in Conns :
        (Returned(c) /\ conn[c].req.cmd \in {"Bind", "UdpAssociate"}) =>
            /\ conn[c].failureReplies = 1
            /\ conn[c].status = CommandNotSupported

\* C5: a session issues at most one reply, success or failure; the relay is
\* started only after reply_success returned Ok; a handler whose success reply
\* failed to be written has ended without a relay.
C5_OneReplyThenRelay ==
    \A c \in Conns :
        /\ conn[c].successReplies + conn[c].failureReplies <= 1
        /\ conn[c].relay # "none" => SuccessReplied(c)
        /\ (conn[c].successReplies = 1 /\ ~conn[c].replyWritten)
              => (Done(c) /\ conn[c].relay = "none"
                  /\ conn[c].outcome = "Replying to socks5 conn")

C5_Witness ==
    \E c, d \in Conns :
        /\ conn[c].pc = "relaying" /\ SuccessReplied(c)
        /\ conn[d].outcome = "Replying to socks5 conn" /\ conn[d].successReplies = 1

\* C6: whenever shutdown has been reported complete, no connection task is
\* still running.
C6_CompleteAfterTasks ==
    mainPc = "complete" => \A c \in Conns : ~Live(c)

\* C7: under fair scheduling, a connection task that is live when the shutdown
\* signal is raised eventually terminates, at whatever suspension point it is.
C7_CancelledTasksTerminate ==
    \A c \in Conns : (shutdown /\ Live(c)) ~> ~Live(c)

C7_Witness ==
    \E c, d \in Conns :
        /\ conn[c].outcome = "cancelled" /\ conn[c].at = "relaying"
        /\ conn[d].outcome = "cancelled"
        /\ conn[d].at \in {"greeting", "request", "connecting", "reply_success"}

\* C8: a connection that arrives after the shutdown signal was raised never
\* gets a task: the pending accept is cancelled instead of returning it.
C8_NoSpawnAfterShutdown ==
    \A c \in Conns : conn[c].late => conn[c].pc \in {"unborn", "backlog"}

\* C9: a terminated connection task has left no socket open: its client
\* socket is closed, and so is its upstream socket if one was opened.
C9_SocketsClosed ==
    \A c \in Conns :
        Done(c) => (conn[c].client = "closed" /\ conn[c].upstream # "open")

C9_Witness ==
    \E c, d \in Conns :
        /\ Done(c) /\ conn[c].outcome = "cancelled" /\ conn[c].upstream = "closed"
        /\ Done(d) /\ conn[d].outcome = "Copying data" /\ conn[d].upstream = "closed"

\* C10: a step in which one connection's task ends with an error leaves the
\* accept loop, the shutdown state and every other connection as they were.
C10_FailureContained ==
    [][\A c \in Conns :
          (~Done(c) /\ conn'[c].pc = "done" /\ conn'[c].outcome \in FailureOutcomes) =>
              /\ servePc' = servePc
              /\ shutdown' = shutdown
              /\ mainPc' = mainPc
              /\ \A d \in Conns \ {c} : conn'[d] = conn[d]]_vars

C10_Witness ==
    /\ conn[1].outcome \in FailureOutcomes
    /\ conn[2].pc = "backlog"
    /\ ENABLED AcceptConn(2)

\* C17: a step in which reply_failure runs and its write fails ends the
\* task of that connection with the error of TcpStream::connect (context
\* "Connecting"), not with the write error; the client is sent nothing, and the
\* accept loop, the shutdown state, main and every other connection are as
\* they were.
C17_FailedFailureReplySwallowed ==
    [][\A c \in Conns :
          (/\ conn[c].pc = "reply_failure"
           /\ conn'[c].failureReplies = 1
           /\ ~conn'[c].replyWritten) =>
              /\ conn'[c].pc = "done"
              /\ conn'[c].outcome = "Connecting"
              /\ conn'[c].err = conn[c].connErr
              /\ conn'[c].err \in ConnectErrors
              /\ conn'[c].out = conn[c].out
              /\ conn'[c].client = "closed"
              /\ servePc' = servePc
              /\ shutdown' = shutdown
              /\ mainPc' = mainPc
              /\ \A d \in Conns \ {c} : conn'[d] = conn[d]]_vars

\* The failure reply of connection 1 could not be written while connection 2
\* is relaying
C17_Witness ==
    /\ Done(1)
    /\ conn[1].failureReplies = 1
    /\ ~conn[1].replyWritten
    /\ conn[1].outcome = "Connecting"
    /\ conn[1].err = "ConnectionRefused"
    /\ conn[2].pc = "relaying"
    /\ servePc = "accepting"

\* C19: the step in which listener.accept() fails ends serve_socks5 and
\* changes nothing else: every connection task, main and the shutdown state
\* are as they were.  From then on serve_socks5 stays ended and no
\* connection that was not accepted before is ever accepted.
C19_AcceptErrorStopsAcceptingOnly ==
    [][/\ (servePc = "accepting" /\ servePc' = "error") =>
              /\ conn' = conn
              /\ mainPc' = mainPc
              /\ shutdown' = shutdown
       /\ servePc = "error" =>
              /\ servePc' = "error"
              /\ \A c \in Conns :
                    conn[c].pc \in {"unborn", "backlog"} => conn'[c].pc = conn[c].pc]_vars

\* After the accept error: connection 1, accepted before it, is relaying and
\* can go on; connection 2 waits unaccepted; main waits for the interrupt.
C19_Witness ==
    /\ servePc = "error"
    /\ conn[1].pc = "relaying"
    /\ ENABLED RelayEof(1, "down")
    /\ conn[2].pc = "backlog"
    /\ ~ENABLED AcceptConn(2)
    /\ mainPc = "ctrl_c"
    /\ ENABLED CtrlC

-----------------------------------------------------------------------------
(* Properties of the handshake of one connection *)

\* The client of c has sent a whole version-5 greeting: 0x05, N, N methods
WholeGreeting(c) ==
    LET s == conn[c].inp
    IN  Len(s) >= 2 /\ s[1] = 5 /\ Len(s) >= 2 + s[2] /\ conn[c].pc # "greeting"

\* The methods the greeting of c offers
OfferedMethods(c) == SubSeq(conn[c].inp, 3, 2 + conn[c].inp[2])

\* accept failed for c with the error e: the handler returned it and the
\* connection is closed
AcceptFailedWith(c, e) ==
    /\ Done(c)
    /\ conn[c].outcome = "Accepting socks5 connection"
    /\ conn[c].err = e
    /\ conn[c].client = "closed"

\* C11: after a version-5 greeting with N methods, accept issues the method
\* selection [0x05, 0x00] (it is the first thing the client is sent, unless the
\* write itself fails) exactly when 0x00 is among the methods, wherever it
\* stands; when it is not, accept fails with "only no auth is supported" and
\* the client is sent nothing.
C11_MethodSelection ==
    \A c \in Conns :
        WholeGreeting(c) =>
            IF \E i \in 1..Len(OfferedMethods(c)) : OfferedMethods(c)[i] = 0
            THEN \/ Len(conn[c].out) >= 2 /\ SubSeq(conn[c].out, 1, 2) = <<5, 0>>
                 \/ /\ AcceptFailedWith(c, "Writing auth response")
                    /\ conn[c].out = <<>>
            ELSE /\ AcceptFailedWith(c, "only no auth is supported")
                 /\ conn[c].out = <<>>

\* 0x00 is offered, not in the first place, and the selection was written
C11_Witness ==
    /\ WholeGreeting(1)
    /\ OfferedMethods(1) = <<1, 0, 2>>
    /\ conn[1].out = <<5, 0>>

\* C12: when the first byte of a client is not 0x05, accept fails with
\* "invalid socks version", the connection is closed, and the client has
\* never been sent a byte: no method selection, no reply, no upstream.
C12_BadVersionNoWrite ==
    \A c \in Conns :
        (conn[c].inp # <<>> /\ conn[c].inp[1] # 5 /\ conn[c].pc # "greeting") =>
            /\ AcceptFailedWith(c, "invalid socks version")
            /\ conn[c].out = <<>>
            /\ conn[c].successReplies = 0
            /\ conn[c].failureReplies = 0
            /\ conn[c].upstream = "none"

\* A SOCKS4 greeting has been read and refused
C12_Witness ==
    /\ conn[1].inp = <<4, 1, 0>>
    /\ AcceptFailedWith(1, "invalid socks version")
    /\ conn[1].out = <<>>

\* C13: a connection whose request is Bind or UdpAssociate never gets to
\* TcpStream::connect: its handler has returned "Invalid request" with no
\* upstream socket, no connect result and no reply; and a connection that is
\* connecting, or has an upstream socket or a connect error, asked for Connect.
C13_NoConnectUnlessConnect ==
    \A c \in Conns :
        /\ conn[c].req.cmd \in {"Bind", "UdpAssociate"} =>
               /\ Done(c)
               /\ conn[c].outcome = "Invalid request"
               /\ conn[c].upstream = "none"
               /\ conn[c].connErr = ""
               /\ conn[c].bound = NoAddress
        /\ (\/ conn[c].pc \in {"connecting", "reply_success", "reply_failure", "relaying"}
            \/ conn[c].upstream # "none"
            \/ conn[c].connErr # "") => conn[c].req.cmd = "Connect"

\* A Bind request has been parsed and refused
C13_Witness ==
    /\ conn[1].req.cmd = "Bind"
    /\ conn[1].outcome = "Invalid request"
    /\ conn[1].upstream = "none"

\* The relay of c is over and both its sockets are closed
RelayOver(c) ==
    /\ Done(c)
    /\ conn[c].client = "closed"
    /\ conn[c].upstream = "closed"

\* C14: once one direction of the relay has reached end-of-stream the relay
\* is over and both sockets are closed, whatever the other direction does.
C14_EndsAtFirstEof ==
    \A c \in Conns : conn[c].relay \in {"up_done", "down_done"} => RelayOver(c)

\* C18: what accept writes to the client is the two bytes [0x05, 0x00], once,
\* and only when the whole greeting with its N methods has been read; when
\* accept fails, at the greeting or at any later read or check, the client has
\* been sent either nothing or those two bytes and nothing else, no reply was
\* issued and no upstream connection was attempted.
C18_AcceptWritesSelectionOnly ==
    \A c \in Conns :
        /\ conn[c].out # <<>> =>
               /\ WholeGreeting(c)
               /\ conn[c].pos >= 3 + conn[c].inp[2]
               /\ Len(conn[c].out) >= 2 /\ SubSeq(conn[c].out, 1, 2) = <<5, 0>>
        /\ conn[c].pc = "request" => conn[c].out = <<5, 0>>
        /\ Len(conn[c].out) > 2 =>
               conn[c].successReplies + conn[c].failureReplies = 1
        /\ conn[c].outcome = "Accepting socks5 connection" =>
               /\ conn[c].out \in {<<>>, <<5, 0>>}
               /\ conn[c].out = <<5, 0>> => conn[c].pos >= 3 + conn[c].inp[2]
               /\ conn[c].successReplies = 0
               /\ conn[c].failureReplies = 0
               /\ conn[c].upstream = "none"
               /\ conn[c].connErr = ""

\* accept failed on a domain that is not UTF-8, after the selection was sent
C18_Witness ==
    /\ AcceptFailedWith(1, "invalid utf-8")
    /\ conn[1].out = <<5, 0>>
    /\ conn[1].upstream = "none"

\* Index in conn[c].inp of the command byte of the request of c
CmdIndex(c) == 2 + conn[c].inp[2] + 2

\* The request of c has been read as far as accept reads it, and its version
\* byte was 0x05 and its command byte is in conn[c].inp
CommandRead(c) ==
    /\ WholeGreeting(c)
    /\ conn[c].pc # "request"
    /\ Len(conn[c].inp) >= CmdIndex(c)
    /\ conn[c].inp[CmdIndex(c) - 1] = 5

\* C16: a command byte other than 0x01, 0x02, 0x03 is refused as an invalid
\* command at the step that reads it: accept fails with "invalid command"
\* having read nothing after the command byte, whatever follows it.
C16_BadCommandRejectedWhenRead ==
    \A c \in Conns :
        (CommandRead(c) /\ conn[c].inp[CmdIndex(c)] \notin {1, 2, 3}) =>
            /\ AcceptFailedWith(c, "invalid command")
            /\ conn[c].pos = CmdIndex(c) + 1

\* Number of client bytes from the greeting through the port field, counted
\* on the bytes themselves: VER, N, N methods; VER, CMD, RSV, ATYP, the
\* address, two bytes of port.
HandshakeLen(s) ==
    LET g    == 2 + s[2]
        atyp == s[g + 4]
        alen == CASE atyp = 1 -> 4
                  [] atyp = 4 -> 16
                  [] atyp = 3 -> 1 + s[g + 5]
    IN  g + 4 + alen + 2

\* What the client of c has sent after the port field
Payload(c) ==
    SubSeq(conn[c].inp, HandshakeLen(conn[c].inp) + 1, Len(conn[c].inp))

\* s is the beginning of t
IsPrefix(s, t) == Len(s) <= Len(t) /\ s = SubSeq(t, 1, Len(s))

\* C20: once accept has returned a request, the handshake has consumed the
\* client bytes through the port field and no more.  While the relay runs,
\* what the upstream has been sent, then what the copy buffer holds, then what
\* is still unread is what the client sent after the port field, byte for
\* byte; at all times the upstream has been sent a beginning of it; and when
\* the client's direction of the relay has reached end-of-stream the upstream
\* has been sent all of it.
C20_PayloadReachesUpstream ==
    \A c \in Conns :
        conn[c].req.cmd # "None" =>
            /\ conn[c].pc \in {"connecting", "reply_success", "reply_failure"} =>
                   conn[c].pos = HandshakeLen(conn[c].inp) + 1 /\ conn[c].up = <<>>
            /\ conn[c].pc = "relaying" =>
                   conn[c].up \o conn[c].upBuf \o Unread(conn[c]) = Payload(c)
            /\ IsPrefix(conn[c].up, Payload(c))
            /\ conn[c].relay \in {"up_done", "finished"} => conn[c].up = Payload(c)

\* Two bytes sent after the port field of a domain request have reached the
\* upstream in order and the client's direction has ended
C20_Witness ==
    /\ conn[1].req.addr.kind = "Domain"
    /\ conn[1].relay \in {"up_done", "finished"}
    /\ conn[1].up = <<170, 187>>
    /\ Payload(1) = <<170, 187>>

-----------------------------------------------------------------------------
(* Properties of the address codec *)

\* C15: Address::parse, applied to a stream that starts with the bytes
\* Address::write produced for an address, returns that address and leaves
\* the stream at the first byte after them.
C15_AddressRoundTrip ==
    probe # NoProbe =>
        /\ probe.parsed.ok
        /\ probe.parsed.addr = probe.addr
        /\ probe.parsed.next = Len(probe.bytes) + 1

\* A domain of MaxDomainLen bytes, some of them of a two-byte character,
\* came back from the stream with bytes after it left unread
C15_Witness ==
    /\ probe.addr.kind = "Domain"
    /\ Len(probe.addr.bytes) = MaxDomainLen
    /\ probe.addr.bytes[1] = 195
    /\ probe.tail # <<>>
    /\ probe.parsed.addr = probe.addr
    /\ probe.parsed.next = MaxDomainLen + 3

====
